---------------------------- MODULE Spec2Model ----------------------------
(***************************************************************************)
(* weatherInTheField: incremental synchronisation of weather-station       *)
(* telemetry into a relational store.                                      *)
(*                                                                         *)
(* Timestamps are epoch milliseconds (int64) in the program.  An epoch     *)
(* millisecond count of the 2020s does not fit the model checker's         *)
(* integers, so a timestamp is kept exactly as the pair                    *)
(*     [s |-> whole epoch seconds, ms |-> milliseconds 0..999]             *)
(* i.e. ts = 1000 * s + ms, with the arithmetic the code does on it.       *)
(***************************************************************************)
EXTENDS Integers, Sequences, FiniteSets, Bags, TLC

VARIABLES
    plan,           \* processDevice's planning step on drawn inputs (SpecPlan)
    Stations,       \* table Stations: the stored station ids
    Telemetry,      \* table Telemetry: a bag of rows
    call,           \* the last call of the database manager and its outcome
    again,          \* the input of a call that its caller is about to repeat
    SessionID,      \* WeatherAPI.SessionID
    req,            \* the call of the API client in progress (or the last one)
    clock,          \* the wall clock, read by processDevice as now
    remote,         \* the remote service: devices and their telemetry
    sync,           \* collectData / processDevice: where the cycle is
    obs,            \* what has been observed of the cycles so far
    sched           \* main and its worker goroutine: signals, ticks, positions

dbVars == <<Stations, Telemetry>>

storeVars == <<Stations, Telemetry, call, again>>

apiVars == <<SessionID, req>>

syncVars == <<clock, remote, sync, obs>>

vars == <<plan, Stations, Telemetry, call, again, SessionID, req,
          clock, remote, sync, obs, sched>>

\* what the database manager's calls leave alone
outsideStore == <<plan, SessionID, req, syncVars, sched>>

\* what the planning step leaves alone
outsidePlan ==
    <<Stations, Telemetry, call, again, SessionID, req, syncVars, sched>>

\* what the API client leaves alone
outsideApi == <<plan, Stations, Telemetry, call, again, syncVars, sched>>

\* what a sync cycle leaves alone
outsideSync == <<plan, call, again, SessionID, req, sched>>

\* what the watermark reads over a stored table leave alone
outsideWatermark == <<call, again, SessionID, req, syncVars, sched>>

\* what main and its worker goroutine leave alone at the level of their
\* scheduling
outsideSched == <<plan, Stations, Telemetry, call, again, SessionID, req,
                  syncVars>>

Nil == "nil"

(***************************************************************************)
(* Timestamps                                                              *)
(***************************************************************************)
T(sec, msec) == [s |-> sec, ms |-> msec]

TZero == T(0, 0)

TLt(a, b) == a.s < b.s \/ (a.s = b.s /\ a.ms < b.ms)

TLe(a, b) == a.s < b.s \/ (a.s = b.s /\ a.ms <= b.ms)

\* t + 1 (one millisecond)
TSucc(t) == IF t.ms = 999 THEN T(t.s + 1, 0) ELSE T(t.s, t.ms + 1)

\* t - 1 (one millisecond)
TPred(t) == IF t.ms = 0 THEN T(t.s - 1, 999) ELSE T(t.s, t.ms - 1)

\* t + 1000 * n
TAddSec(t, n) == T(t.s + n, t.ms)

\* min(a, b) of part_001:301
TMin(a, b) == IF TLt(b, a) THEN b ELSE a

DaySec == 24 * 60 * 60

\* intervalMs := int64(15 * 60 * 1000), in seconds
intervalSec == 15 * 60

\* 365*24*60*60*1000, in seconds
YearSec == 365 * DaySec

\* 30*24*60*60*1000, in seconds
MonthSec == 30 * DaySec

(***************************************************************************)
(* Calendar of package time, for the zone the image runs in.               *)
(***************************************************************************)
\* ENV TZ=Europe/Moscow: UTC+3, no daylight saving
TzOffsetSec == 10800

\* days since 1970-01-01 of the civil date y-m-d (proleptic Gregorian)
DaysFromCivil(y, m, d) ==
    LET yy  == IF m <= 2 THEN y - 1 ELSE y
        era == yy \div 400
        yoe == yy - era * 400
        mp  == IF m > 2 THEN m - 3 ELSE m + 9
        doy == (153 * mp + 2) \div 5 + d - 1
        doe == yoe * 365 + yoe \div 4 - yoe \div 100 + doy
    IN  era * 146097 + doe - 719468

\* the civil date of a day number
CivilFromDays(z) ==
    LET zz  == z + 719468
        era == zz \div 146097
        doe == zz - era * 146097
        yoe == (doe - doe \div 1460 + doe \div 36524 - doe \div 146096) \div 365
        doy == doe - (365 * yoe + yoe \div 4 - yoe \div 100)
        mp  == (5 * doy + 2) \div 153
        d   == doy - (153 * mp + 2) \div 5 + 1
        m   == IF mp < 10 THEN mp + 3 ELSE mp - 9
        y   == yoe + era * 400 + (IF m <= 2 THEN 1 ELSE 0)
    IN  [y |-> y, m |-> m, d |-> d]

\* time.Unix(sec, 0) seen in the local zone: Year(), Month(), Day()
LocalDate(sec) == CivilFromDays((sec + TzOffsetSec) \div DaySec)

\* time.Date(y, m, 1, 0, 0, 0, 0, loc), as epoch seconds
MonthStart(y, m) == DaysFromCivil(y, m, 1) * DaySec - TzOffsetSec

\* AddDate(0, 1, 0) of a first-of-month midnight, as epoch seconds
AddMonth(sec) ==
    LET c == LocalDate(sec)
    IN  IF c.m = 12 THEN MonthStart(c.y + 1, 1) ELSE MonthStart(c.y, c.m + 1)

(***************************************************************************)
(* Period planner                                                          *)
(***************************************************************************)
timePeriod(from, to) == [from |-> from, to |-> to]

RECURSIVE splitByDaysLoop(_, _, _, _)
splitByDaysLoop(current, tsTo, ivSec, periods) ==
    IF TLt(current, tsTo)
    THEN LET stepEnd   == TAddSec(current, ivSec)
             periodEnd == IF TLt(tsTo, stepEnd) THEN tsTo ELSE stepEnd
         IN  splitByDaysLoop(periodEnd, tsTo, ivSec,
                             Append(periods, timePeriod(current, periodEnd)))
    ELSE periods

splitTimePeriodByDays(tsFrom, tsTo, days) ==
    splitByDaysLoop(tsFrom, tsTo, days * DaySec, <<>>)

RECURSIVE splitByMonthLoop(_, _, _)
splitByMonthLoop(currentMonth, tsTo, periods) ==
    IF currentMonth < tsTo.s          \* currentMonth.Before(toTime)
    THEN LET nextMonth   == AddMonth(currentMonth)
             periodStart == T(currentMonth, 0)
             monthEnd    == T(nextMonth, 0)
             periodEnd   == IF TLt(tsTo, monthEnd) THEN tsTo ELSE monthEnd
             out         == Append(periods, timePeriod(periodStart, periodEnd))
         IN  IF TLe(tsTo, T(nextMonth, 0))
             THEN out                 \* break
             ELSE splitByMonthLoop(nextMonth, tsTo, out)
    ELSE periods

\* a faulty variant of splitTimePeriodByMonth: periods of thirty days
splitTimePeriodByThirtyDays(tsFrom, tsTo) ==
    splitTimePeriodByDays(tsFrom, tsTo, 30)

splitTimePeriodByMonth(tsFrom, tsTo) ==
    LET fromDate == LocalDate(tsFrom.s)     \* time.Unix(tsFrom/1000, 0)
        month0   == MonthStart(fromDate.y, fromDate.m)
    IN  IF fromDate.d > 1
        THEN LET nextMonth == AddMonth(month0)
                 periodEnd == TMin(T(nextMonth, 0), tsTo)
             IN  splitByMonthLoop(nextMonth, tsTo,
                                  <<timePeriod(tsFrom, periodEnd)>>)
        ELSE splitByMonthLoop(month0, tsTo, <<>>)

(***************************************************************************)
(* processDevice: classification of the sensors and the two plans          *)
(***************************************************************************)
\* the configured sensor keys (two of the list's keys are modelled)
sensorKeys == <<"airtemp", "soiltemp">>

SensorKeySet == {sensorKeys[i] : i \in 1..Len(sensorKeys)}

\* reads[k] is what GetLatestTelemetryTimestamp(device.ID, k) returned:
\* [ts |-> lastTs, err |-> whether it returned an error]
IsExisting(r) == ~r.err /\ TLt(TZero, r.ts)

newSensorsOf(reads) == SelectSeq(sensorKeys, LAMBDA k : ~IsExisting(reads[k]))

\* a faulty variant of existingSensorsOf: every key is requested from the
\* watermark on
allSensorsOf(reads) == sensorKeys

existingSensorsOf(reads) == SelectSeq(sensorKeys, LAMBDA k : IsExisting(reads[k]))

RECURSIVE minTsFromLoop(_, _, _)
minTsFromLoop(i, reads, minTsFrom) ==
    IF i > Len(sensorKeys) THEN minTsFrom
    ELSE LET r == reads[sensorKeys[i]]
         IN  minTsFromLoop(i + 1, reads,
                 IF IsExisting(r) /\ TLt(r.ts, minTsFrom) THEN r.ts ELSE minTsFrom)

\* a faulty variant of minTsFromOf: the lastTs of the first existing sensor
firstTsFromOf(now, reads) ==
    LET ex == existingSensorsOf(reads)
    IN  IF Len(ex) > 0 THEN reads[ex[1]].ts ELSE now

\* minTsFrom := now, lowered to every existing sensor's lastTs below it
minTsFromOf(now, reads) == minTsFromLoop(1, reads, now)

\* a faulty variant of tsFromOf: the watermark itself is requested again (no + 1)
tsFromOfNoOffset(now, minTsFrom) ==
    IF TLt(minTsFrom, now) /\ TLt(TZero, minTsFrom)
    THEN minTsFrom
    ELSE TAddSec(now, 0 - intervalSec)

\* tsFrom := now - intervalMs; if minTsFrom < now && minTsFrom > 0 { tsFrom = minTsFrom + 1 }
tsFromOf(now, minTsFrom) ==
    IF TLt(minTsFrom, now) /\ TLt(TZero, minTsFrom)
    THEN TSucc(minTsFrom)
    ELSE TAddSec(now, 0 - intervalSec)

\* periods of the new group: splitTimePeriodByMonth(now - 365d, now)
newPeriodsOf(now) == splitTimePeriodByMonth(TAddSec(now, 0 - YearSec), now)

\* a faulty variant of existingPeriodsOf: an old watermark is not split into 30-day periods
existingPeriodsOfNoSplit(now, tsFrom) == <<timePeriod(tsFrom, now)>>

\* periods of the existing group
existingPeriodsOf(now, tsFrom) ==
    IF TLt(tsFrom, TAddSec(now, 0 - MonthSec))
    THEN splitTimePeriodByDays(tsFrom, now, 30)
    ELSE <<timePeriod(tsFrom, now)>>

\* a faulty variant of planOf: a failed watermark read abandons the device
planOfNothingOnError(now, reads) ==
    LET tsFrom == tsFromOf(now, minTsFromOf(now, reads))
        newS   == newSensorsOf(reads)
        exS    == existingSensorsOf(reads)
        failed == \E k \in SensorKeySet : reads[k].err
    IN  [newSensors      |-> IF failed THEN <<>> ELSE newS,
         existingSensors |-> IF failed THEN <<>> ELSE exS,
         tsFrom          |-> tsFrom,
         newPeriods      |-> IF Len(newS) > 0 /\ ~failed THEN newPeriodsOf(now)
                                                        ELSE <<>>,
         existingPeriods |-> IF Len(exS) > 0 /\ ~failed
                             THEN existingPeriodsOf(now, tsFrom) ELSE <<>>]

\* what processDevice decides before its first request
planOf(now, reads) ==
    LET tsFrom == tsFromOf(now, minTsFromOf(now, reads))
        newS   == newSensorsOf(reads)
        exS    == existingSensorsOf(reads)
    IN  [newSensors      |-> newS,
         existingSensors |-> exS,
         tsFrom          |-> tsFrom,
         newPeriods      |-> IF Len(newS) > 0 THEN newPeriodsOf(now) ELSE <<>>,
         existingPeriods |-> IF Len(exS) > 0 THEN existingPeriodsOf(now, tsFrom)
                                             ELSE <<>>]

\* The single-group processDevice (part_000): the loop over sensorKeys that
\* sets tsFrom and noDataForStation; a failed read is skipped, and the loop
\* breaks at the first sensor whose lastTs is > 0 and < tsFrom
RECURSIVE singleGroupLoop(_, _, _, _)
singleGroupLoop(i, reads, tsFrom, noDataForStation) ==
    IF i > Len(sensorKeys)
    THEN [tsFrom |-> tsFrom, noDataForStation |-> noDataForStation]
    ELSE LET r == reads[sensorKeys[i]]
         IN  IF r.err
             THEN singleGroupLoop(i + 1, reads, tsFrom, noDataForStation)
             ELSE IF TLt(TZero, r.ts)
             THEN IF TLt(r.ts, tsFrom)
                  THEN [tsFrom |-> TSucc(r.ts), noDataForStation |-> FALSE]
                  ELSE singleGroupLoop(i + 1, reads, tsFrom, FALSE)
             ELSE singleGroupLoop(i + 1, reads, tsFrom, noDataForStation)

\* what the single-group processDevice decides before its first request
singleGroupPlanOf(now, reads) ==
    LET l == singleGroupLoop(1, reads, TAddSec(now, 0 - intervalSec), TRUE)
    IN  [tsFrom |-> l.tsFrom,
         noDataForStation |-> l.noDataForStation,
         periods |->
            IF l.noDataForStation
            THEN splitTimePeriodByMonth(TAddSec(now, 0 - YearSec), now)
            ELSE IF TLt(l.tsFrom, TAddSec(now, 0 - MonthSec))
            THEN splitTimePeriodByDays(l.tsFrom, now, 30)
            ELSE <<timePeriod(l.tsFrom, now)>>]

\* the single-group processDevice has decided nothing yet
NoSinglePlan == [tsFrom |-> TZero, noDataForStation |-> TRUE, periods |-> <<>>]

(***************************************************************************)
(* Storage: tables Stations and Telemetry, and the database manager        *)
(***************************************************************************)
\* a TelemetryPoint's Value (interface{}): a float64, a string or nil
NumV(n) == [kind |-> "float64", v |-> n]

StrV == [kind |-> "string", v |-> 0]

NilV == [kind |-> "nil", v |-> 0]

\* a faulty variant of IsNumeric: a string passes the type switch too
IsNumericOrString(value) ==
    value.kind \in {"float64", "float32", "int", "int64", "string"}

\* the type switch of StoreTelemetry: float64, float32, int, int64
IsNumeric(value) == value.kind \in {"float64", "float32", "int", "int64"}

TelemetryPoint(ts, value) == [Ts |-> ts, Value |-> value]

\* the row StoreTelemetry binds for one point; DateValue is time.Unix(Ts/1000, 0)
TelemetryRow(deviceID, sensorKey, point) ==
    [StationID |-> deviceID, SensorKey |-> sensorKey, Timestamp |-> point.Ts,
     DateValue |-> point.Ts.s, Value |-> point.Value.v]

SameKey(r, row) ==
    /\ r.StationID = row.StationID
    /\ r.SensorKey = row.SensorKey
    /\ r.Timestamp = row.Timestamp

\* SELECT 1 FROM Telemetry WHERE StationID = .. AND SensorKey = .. AND Timestamp = ..
RowExists(tbl, row) == \E r \in BagToSet(tbl) : SameKey(r, row)

RECURSIVE SumCopies(_, _)
SumCopies(tbl, rows) ==
    IF rows = {} THEN 0
    ELSE LET r == CHOOSE x \in rows : TRUE
         IN  CopiesIn(r, tbl) + SumCopies(tbl, rows \ {r})

\* UPDATE Telemetry SET Value = .. WHERE StationID = .. AND SensorKey = .. AND Timestamp = ..
UpdateRow(tbl, row) ==
    LET upd(r) == IF SameKey(r, row) THEN [r EXCEPT !.Value = row.Value] ELSE r
        after  == {upd(r) : r \in BagToSet(tbl)}
    IN  [r2 \in after |-> SumCopies(tbl, {r \in BagToSet(tbl) : upd(r) = r2})]

\* INSERT INTO Telemetry under FK_Telemetry_Stations and
\* UQ_Telemetry_Station_Sensor_Date: [tbl, err]
InsertRow(tbl, stations, row) ==
    IF row.StationID \notin stations \/ RowExists(tbl, row)
    THEN [tbl |-> tbl, err |-> "constraint"]
    ELSE [tbl |-> tbl (+) SetToBag({row}), err |-> Nil]

\* a faulty variant of ExecUpsert: a plain INSERT into a table without the constraint
ExecPlainInsert(tbl, stations, row) ==
    IF row.StationID \notin stations
    THEN [tbl |-> tbl, err |-> "constraint"]
    ELSE [tbl |-> tbl (+) SetToBag({row}), err |-> Nil]

\* a faulty variant of ExecUpsert: an INSERT only, never an UPDATE
ExecInsertOnly(tbl, stations, row) == InsertRow(tbl, stations, row)

\* the prepared statement of StoreTelemetry: IF NOT EXISTS .. INSERT .. ELSE UPDATE
ExecUpsert(tbl, stations, row) ==
    IF ~RowExists(tbl, row)
    THEN InsertRow(tbl, stations, row)
    ELSE [tbl |-> UpdateRow(tbl, row), err |-> Nil]

\* the rows StoreTelemetry executes for data (sensorKey -> points), in order:
\* the points of a key in their order, the non-numeric ones skipped.  (The
\* order of the keys is Go's map order; rows of different keys never meet.)
RECURSIVE RowsOfPoints(_, _, _)
RowsOfPoints(deviceID, sensorKey, points) ==
    IF points = <<>> THEN <<>>
    ELSE LET rest == RowsOfPoints(deviceID, sensorKey, Tail(points))
         IN  IF IsNumeric(Head(points).Value)
             THEN <<TelemetryRow(deviceID, sensorKey, Head(points))>> \o rest
             ELSE rest

RECURSIVE RowsOfKeys(_, _, _)
RowsOfKeys(deviceID, data, keys) ==
    IF keys = <<>> THEN <<>>
    ELSE (IF Head(keys) \in DOMAIN data
          THEN RowsOfPoints(deviceID, Head(keys), data[Head(keys)])
          ELSE <<>>) \o RowsOfKeys(deviceID, data, Tail(keys))

RowsOf(deviceID, data) == RowsOfKeys(deviceID, data, sensorKeys)

\* the loop of stmt.Exec inside the transaction: [tbl, err]; the fault, if it
\* is "exec", fails the execution of row number failAt
RECURSIVE ExecRows(_, _, _, _, _)
ExecRows(tbl, stations, rows, i, failAt) ==
    IF i > Len(rows) THEN [tbl |-> tbl, err |-> Nil]
    ELSE IF i = failAt THEN [tbl |-> tbl, err |-> "exec"]
    ELSE LET r == ExecUpsert(tbl, stations, rows[i])
         IN  IF r.err # Nil THEN r
             ELSE ExecRows(r.tbl, stations, rows, i + 1, failAt)

\* what the database does to one call: nothing ("none"), or it fails Begin,
\* Prepare, the Exec of row number `at`, or Commit
NoFault == [kind |-> "none", at |-> 0]

Faults(nRows) ==
    {NoFault} \cup {[kind |-> k, at |-> 0] : k \in {"begin", "prepare", "commit"}}
              \cup {[kind |-> "exec", at |-> i] : i \in 1..nRows}

\* a faulty variant of StoreTelemetry: the rows executed before a failure stay
StoreTelemetryNoRollback(tbl, stations, deviceID, data, fault) ==
    IF fault.kind \in {"begin", "prepare"}
    THEN [tbl |-> tbl, err |-> fault.kind]
    ELSE LET r == ExecRows(tbl, stations, RowsOf(deviceID, data), 1, fault.at)
         IN  IF r.err # Nil THEN r
             ELSE IF fault.kind = "commit" THEN [tbl |-> r.tbl, err |-> "commit"]
             ELSE [tbl |-> r.tbl, err |-> Nil]

\* StoreTelemetry(deviceID, data): [tbl |-> Telemetry after the call, err]
StoreTelemetry(tbl, stations, deviceID, data, fault) ==
    IF fault.kind \in {"begin", "prepare"}
    THEN [tbl |-> tbl, err |-> fault.kind]
    ELSE LET r == ExecRows(tbl, stations, RowsOf(deviceID, data), 1, fault.at)
         IN  IF r.err # Nil THEN [tbl |-> tbl, err |-> r.err]        \* tx.Rollback()
             ELSE IF fault.kind = "commit" THEN [tbl |-> tbl, err |-> "commit"]
             ELSE [tbl |-> r.tbl, err |-> Nil]

\* StoreStations(devices): [stations |-> Stations after the call, err]; the
\* MERGE inserts or updates by ID
StoreStations(stations, devices, fault) ==
    IF fault.kind # "none"
    THEN [stations |-> stations, err |-> fault.kind]
    ELSE [stations |-> stations \cup {devices[i] : i \in 1..Len(devices)},
          err |-> Nil]

RECURSIVE MaxTs(_)
MaxTs(tss) ==
    LET t == CHOOSE x \in tss : TRUE
    IN  IF tss = {t} THEN t
        ELSE LET m == MaxTs(tss \ {t}) IN IF TLt(m, t) THEN t ELSE m

\* a faulty variant of GetLatestTelemetryTimestamp: ORDER BY Timestamp ASC
GetEarliestTelemetryTimestamp(tbl, stationID, sensorKey) ==
    LET tss == {r.Timestamp : r \in {x \in BagToSet(tbl) :
                    x.StationID = stationID /\ x.SensorKey = sensorKey}}
    IN  IF tss = {} THEN TZero
        ELSE CHOOSE t \in tss : \A u \in tss : TLe(t, u)

\* GetLatestTelemetryTimestamp(stationID, sensorKey) without a query error:
\* SELECT TOP 1 Timestamp .. ORDER BY Timestamp DESC, 0 on sql.ErrNoRows
GetLatestTelemetryTimestamp(tbl, stationID, sensorKey) ==
    LET tss == {r.Timestamp : r \in {x \in BagToSet(tbl) :
                    x.StationID = stationID /\ x.SensorKey = sensorKey}}
    IN  IF tss = {} THEN TZero ELSE MaxTs(tss)

(***************************************************************************)
(* The API client (WeatherAPI)                                             *)
(***************************************************************************)
\* what one HTTP exchange gives the client: the POST fails ("transport"), the
\* body does not decode ("decode"), or a decoded body with its status, the
\* sid of a login response and the data of a devices or telemetry response
Response(kind, status, sid, data) ==
    [kind |-> kind, status |-> status, sid |-> sid, data |-> data]

NoResponse == Response("none", "", "", <<>>)

\* a faulty variant of Login: the sid of the response is dropped
LoginKeepsOldSid(sessionID, resp) ==
    IF resp.kind = "transport" THEN [sid |-> sessionID, err |-> "transport"]
    ELSE IF resp.kind = "decode" THEN [sid |-> sessionID, err |-> "decode"]
    ELSE IF resp.status = "error" THEN [sid |-> sessionID, err |-> "auth"]
    ELSE IF resp.sid = "" THEN [sid |-> sessionID, err |-> "nosid"]
    ELSE [sid |-> sessionID, err |-> Nil]

\* a faulty variant of Login: the sid of a decoded response is assigned before
\* the response is validated
LoginAssignsFirst(sessionID, resp) ==
    IF resp.kind = "transport" THEN [sid |-> sessionID, err |-> "transport"]
    ELSE IF resp.kind = "decode" THEN [sid |-> sessionID, err |-> "decode"]
    ELSE IF resp.status = "error" THEN [sid |-> resp.sid, err |-> "auth"]
    ELSE IF resp.sid = "" THEN [sid |-> resp.sid, err |-> "nosid"]
    ELSE [sid |-> resp.sid, err |-> Nil]

\* Login() on the response resp: [sid |-> SessionID after the call, err]
Login(sessionID, resp) ==
    IF resp.kind = "transport" THEN [sid |-> sessionID, err |-> "transport"]
    ELSE IF resp.kind = "decode" THEN [sid |-> sessionID, err |-> "decode"]
    ELSE IF resp.status = "error" THEN [sid |-> sessionID, err |-> "auth"]
    ELSE IF resp.sid = "" THEN [sid |-> sessionID, err |-> "nosid"]
    ELSE [sid |-> resp.sid, err |-> Nil]

\* a TelemetryData of a telemetry response
TelemetryData(key, ts, dblV, strV) ==
    [Key |-> key, Ts |-> ts, DblV |-> dblV, StrV |-> strV]

\* the Value GetTelemetry gives a point: the number unless it is 0, the
\* string otherwise
PointValue(d) == IF d.DblV # 0 THEN NumV(d.DblV) ELSE StrV

\* result[data.Key] = append(result[data.Key], point), over the response
ConvertTelemetry(data) ==
    [k \in {data[i].Key : i \in 1..Len(data)} |->
        LET sel == SelectSeq(data, LAMBDA d : d.Key = k)
        IN  [i \in 1..Len(sel) |-> TelemetryPoint(sel[i].Ts, PointValue(sel[i]))]]

\* what a call returns on an OK response
ResultOf(method, data) ==
    IF method = "GetTelemetry" THEN ConvertTelemetry(data) ELSE data

\* the request a call posts: the session token and the call's arguments
Request(sid, args) == [sid |-> sid, args |-> args]

NoArgs == [deviceID |-> "", keys |-> <<>>, tsFrom |-> TZero, tsTo |-> TZero]

\* pc: where the client is; method, args: the call; logins, posts, nonOK: the
\* Login calls, the requests and the non-OK responses of the call so far;
\* newSid: the sid of the call's last successful Login; sent: the last
\* request; resp: the last response; ret: what the call returned
NoReq ==
    [pc |-> "start", method |-> "none", args |-> NoArgs, logins |-> 0,
     posts |-> 0, nonOK |-> 0, newSid |-> "", sent |-> Request("", NoArgs),
     resp |-> NoResponse, ret |-> [data |-> <<>>, err |-> Nil]]

\* NewWeatherAPI: no session yet
ApiInit ==
    /\ SessionID = ""
    /\ req = NoReq

(***************************************************************************)
(* The sync cycle: collectData, processDevice, processAndSaveTelemetry     *)
(***************************************************************************)
\* cfg.CollectionInterval minutes between two ticks
CollectionIntervalSec == 15 * 60

\* the TelemetryData the remote holds of the device for the keys between
\* tsFrom and tsTo
RemoteTelemetry(rem, deviceID, keys, tsFrom, tsTo) ==
    SelectSeq(rem.data[deviceID],
              LAMBDA d : /\ \E i \in 1..Len(keys) : keys[i] = d.Key
                         /\ TLe(tsFrom, d.Ts)
                         /\ TLe(d.Ts, tsTo))

RECURSIVE SumLen(_, _)
SumLen(telemetry, keys) ==
    IF keys = {} THEN 0
    ELSE LET k == CHOOSE x \in keys : TRUE
         IN  Len(telemetry[k]) + SumLen(telemetry, keys \ {k})

\* recordsCount of processAndSaveTelemetry: every point of the map
recordsCountOf(telemetry) == SumLen(telemetry, DOMAIN telemetry)

\* processAndSaveTelemetry(deviceID, telemetry): [tbl, err, count, written];
\* nothing is stored when the map has no point, 0 is returned when the store
\* fails; written is the number of rows StoreTelemetry executed and committed
processAndSaveTelemetry(tbl, stations, deviceID, telemetry, fault) ==
    IF recordsCountOf(telemetry) = 0
    THEN [tbl |-> tbl, err |-> Nil, count |-> 0, written |-> 0]
    ELSE LET r == StoreTelemetry(tbl, stations, deviceID, telemetry, fault)
         IN  [tbl |-> r.tbl, err |-> r.err,
              count |-> IF r.err # Nil THEN 0 ELSE recordsCountOf(telemetry),
              written |-> IF r.err # Nil THEN 0
                          ELSE Len(RowsOf(deviceID, telemetry))]

\* a faulty variant of NextWindow: a failed window ends the loop
NextWindowAbort(pi, n, failed) == IF failed THEN n + 1 ELSE pi + 1

\* the loops over periods: the next period after a window, failed or not
NextWindow(pi, n, failed) == pi + 1

NoReads == [k \in SensorKeySet |-> [ts |-> TZero, err |-> FALSE]]

NoPlan ==
    [newSensors |-> <<>>, existingSensors |-> <<>>, tsFrom |-> TZero,
     newPeriods |-> <<>>, existingPeriods |-> <<>>]

\* pc: where the worker is; cycle: cycles started; devices: the list GetDevices
\* returned; di: the device in the loop of collectData; now, reads, out: now,
\* the watermark reads and the plan of processDevice; pi: the period in the
\* loop; total: totalRecordsCount
NoSync ==
    [pc |-> "idle", cycle |-> 0, devices |-> <<>>, di |-> 0, now |-> TZero,
     reads |-> NoReads, out |-> NoPlan, pi |-> 0, total |-> 0]

\* faults: failures injected so far; clean: the cycle has met no failure;
\* prev: the last finished cycle (its number, whether it was clean, the rows
\* stored at its end); log: the windows requested for the device so far;
\* processed: the devices processed in the cycle; failed: the windows of the
\* cycle that failed; failedPrev: those of the cycle before; written: the rows
\* StoreTelemetry has written for the device; backfilled: the sensors whose
\* backfill went through, with the cycle in which it first did; listFailed:
\* GetDevices failed in the cycle; ops: the calls processDevice has made for
\* the device, in the order in which they were made and returned
NoObs ==
    [faults |-> 0, clean |-> TRUE,
     prev |-> [cycle |-> 0, clean |-> FALSE, count |-> 0],
     log |-> <<>>, processed |-> <<>>, failed |-> {}, failedPrev |-> {},
     written |-> 0, backfilled |-> {}, listFailed |-> FALSE, ops |-> <<>>]

\* no worker: the specifications of the parts
\* main has not started: no signal, no tick, no goroutine
NoSched ==
    [main |-> "login", worker |-> "none", di |-> 0, cont |-> "none",
     stopChan |-> 0, tick |-> 0, ticker |-> FALSE, signals |-> 0,
     active |-> 0, ran |-> FALSE, loginFailed |-> FALSE, dbOpen |-> FALSE,
     stopInCycle |-> FALSE, startedAfterStop |-> FALSE]

SyncOff ==
    /\ clock = TZero
    /\ remote = [devices |-> <<>>, data |-> <<>>]
    /\ sync = NoSync
    /\ obs = NoObs
    /\ sched = NoSched

(***************************************************************************)
(* SpecStore: the database manager under any sequence of calls             *)
(***************************************************************************)
\* the station the calls are about
StoreDeviceIDs == {"d1"}

\* most points one StoreTelemetry call carries
MaxPoints == 2

StoreTimes == {T(1710000000, 0), T(1710000900, 250)}

StoreValues == {NumV(1), NumV(2), StrV}

StorePoints == {TelemetryPoint(t, v) : t \in StoreTimes, v \in StoreValues}

PointSeqs(n) == UNION {[1..k -> StorePoints] : k \in 1..n}

\* the telemetry maps of at most MaxPoints points
StoreData ==
    {<<>>}
    \cup UNION {[{k} -> PointSeqs(MaxPoints)] : k \in SensorKeySet}
    \cup {d \in [SensorKeySet -> PointSeqs(MaxPoints - 1)] :
             Len(d[sensorKeys[1]]) + Len(d[sensorKeys[2]]) <= MaxPoints}

StoreDeviceLists == {<<>>, <<"d1">>}

\* what a caller sees of an error: nil, a constraint violation, or a failure
\* of the database itself (Begin, Prepare, Exec or Commit)
ErrClass(err) == IF err \in {Nil, "constraint"} THEN err ELSE "fault"

\* the last call.  op: the method; err: the class of what it returned;
\* numeric: it succeeded on an input with a row to write (a numeric point, a
\* device); changed: the tables
\* differ from before the call; repeat: it repeated the input of the
\* successful call before it
NoCall == [op |-> "none", err |-> Nil, numeric |-> FALSE,
           changed |-> FALSE, repeat |-> FALSE]

StoreInit ==
    /\ Stations = {}
    /\ Telemetry = EmptyBag
    /\ call = NoCall
    /\ again = {}

StoreStationsCall ==
    /\ again = {}
    /\ \E devices \in StoreDeviceLists, fault \in Faults(1) :
        LET r == StoreStations(Stations, devices, fault)
        IN  /\ Stations' = r.stations
            /\ call' = [NoCall EXCEPT !.op = "StoreStations",
                                      !.err = ErrClass(r.err),
                                      !.numeric = (r.err = Nil /\ devices # <<>>),
                                      !.changed = (r.stations # Stations)]
            /\ UNCHANGED <<Telemetry, again, outsideStore>>

\* one call StoreTelemetry(deviceID, data) whose numeric rows are rows, under
\* the fault, recorded in call
DoStoreTelemetry(deviceID, data, rows, fault, repeat) ==
    \E r \in {StoreTelemetry(Telemetry, Stations, deviceID, data, fault)} :
        /\ Telemetry' = r.tbl
        /\ call' = [op |-> "StoreTelemetry", err |-> ErrClass(r.err),
                    numeric |-> (r.err = Nil /\ Len(rows) > 0),
                    changed |-> (r.tbl # Telemetry), repeat |-> repeat]
        /\ UNCHANGED <<Stations, outsideStore>>

\* a call with any input; the caller may be one that repeats a successful
\* call (again' holds the input then)
StoreTelemetryCall ==
    /\ again = {}
    /\ \E deviceID \in StoreDeviceIDs, data \in StoreData :
         \E rows \in {RowsOf(deviceID, data)} :
           \E fault \in Faults(Len(rows)) :
             /\ DoStoreTelemetry(deviceID, data, rows, fault, FALSE)
             /\ \/ again' = {}
                \/ /\ call'.err = Nil
                   /\ again' = {[deviceID |-> deviceID, data |-> data]}

\* the second call with the identical input
StoreTelemetryAgain ==
    \E in \in again :
      \E rows \in {RowsOf(in.deviceID, in.data)} :
        \E fault \in Faults(Len(rows)) :
          /\ DoStoreTelemetry(in.deviceID, in.data, rows, fault, TRUE)
          /\ again' = {}

StoreNext == StoreStationsCall \/ StoreTelemetryCall \/ StoreTelemetryAgain

\* the database manager alone: no device is being planned
StoreOnly == StoreInit /\ ApiInit /\ SyncOff /\ plan = Nil

SpecStore == StoreOnly /\ [][StoreNext]_vars

(***************************************************************************)
(* Properties of the database manager                                      *)
(***************************************************************************)
\* the rows of the table with the key of row
RowsWithKey(tbl, row) == {r \in BagToSet(tbl) : SameKey(r, row)}

\* C1: after any sequence of StoreTelemetry calls, successful or failed, with
\* any inputs (a point repeated inside one call or across calls included),
\* the table holds at most one row per (StationID, SensorKey, Timestamp)
C1_OneRowPerKey ==
    \A row \in BagToSet(Telemetry) :
        /\ RowsWithKey(Telemetry, row) = {row}
        /\ CopiesIn(row, Telemetry) = 1

\* C1 happens: a successful call has repeated the points of the call before
\* it, and the table holds rows of two keys
C1_Witness ==
    /\ call.op = "StoreTelemetry"
    /\ call.repeat
    /\ call.numeric
    /\ BagCardinality(Telemetry) >= 2

\* C2: a second StoreTelemetry call with the identical input after a first
\* successful call leaves the stored rows (keys and values) as they were, and
\* returns no error unless the database itself failed during it
C2_SecondCallIdempotent ==
    (call.op = "StoreTelemetry" /\ call.repeat)
        => /\ ~call.changed
           /\ call.err # "fault" => call.err = Nil

\* C2 happens: the second call with the input of a successful call that wrote
\* rows has returned without error
C2_Witness ==
    /\ call.op = "StoreTelemetry"
    /\ call.repeat
    /\ call.err = Nil
    /\ call.numeric
    /\ Telemetry # EmptyBag

\* the row of the table with the key of row has the value of row
StoredAs(tbl, row) == \E r \in BagToSet(tbl) : SameKey(r, row) /\ r.Value = row.Value

\* C17: a StoreTelemetry or StoreStations call that returns an error leaves
\* the tables as they were before the call; after a call that returned nil
\* every numeric row of its input is stored (with the value of the last point
\* of its key), and so is every station of a StoreStations call
C17_CallsAreAtomic ==
    /\ call.err # Nil => ~call.changed
    /\ \A in \in again :
          LET rows == RowsOf(in.deviceID, in.data)
          IN  /\ call.op = "StoreTelemetry" /\ call.err = Nil
              /\ \A i \in 1..Len(rows) :
                    \/ StoredAs(Telemetry, rows[i])
                    \/ \E j \in (i + 1)..Len(rows) :
                          SameKey(rows[j], rows[i]) /\ StoredAs(Telemetry, rows[j])
    /\ (call.op = "StoreStations" /\ call.numeric)
          => \A devices \in StoreDeviceLists :
                \A i \in 1..Len(devices) : devices[i] \in Stations

\* C17 happens: a call failed on a table that holds rows
C17_Witness ==
    /\ call.op = "StoreTelemetry"
    /\ call.err = "fault"
    /\ ~call.repeat
    /\ BagCardinality(Telemetry) >= 2

\* every row of rows is in the table, with the value of the last row of its key
AllStored(tbl, rows) ==
    \A i \in 1..Len(rows) :
        \/ StoredAs(tbl, rows[i])
        \/ \E j \in (i + 1)..Len(rows) :
              SameKey(rows[j], rows[i]) /\ StoredAs(tbl, rows[j])

\* the input has a point whose value is not numeric
HasNonNumeric(data) ==
    \E k \in DOMAIN data : \E i \in 1..Len(data[k]) : ~IsNumeric(data[k][i].Value)

\* C18: a point whose value is not numeric is not stored (every stored value
\* is one of the numeric values) and does not make StoreTelemetry fail: for a
\* stored station the call returns nil unless the database itself fails, and
\* it has stored every numeric point of the same input
C18_NonNumericSkippedSilently ==
    /\ \A r \in BagToSet(Telemetry) :
          \E v \in StoreValues : v.kind = "float64" /\ r.Value = v.v
    /\ (call.op = "StoreTelemetry" /\ call.err # "fault"
            /\ StoreDeviceIDs \subseteq Stations)
          => call.err = Nil
    /\ \A in \in again :
          HasNonNumeric(in.data)
            => AllStored(Telemetry, RowsOf(in.deviceID, in.data))

\* C18 happens: a call whose input had a string value and a numeric value
\* has returned nil
C18_Witness ==
    /\ call.op = "StoreTelemetry"
    /\ call.err = Nil
    /\ call.numeric
    /\ \E in \in again : HasNonNumeric(in.data)

\* C30: whatever the calls and whether they succeed or fail, no stored
\* reading and no station is ever removed: the watermark of every (station,
\* sensor) pair never decreases, and a pair that has one keeps having one
C30_NothingRemovedWatermarkMonotone ==
    [][/\ Stations \subseteq Stations'
       /\ \A r \in BagToSet(Telemetry) :
             \E q \in BagToSet(Telemetry') : SameKey(q, r)
       /\ \/ Telemetry' = Telemetry
          \/ \A d \in StoreDeviceIDs : \A k \in SensorKeySet :
                LET before == GetLatestTelemetryTimestamp(Telemetry, d, k)
                    after  == GetLatestTelemetryTimestamp(Telemetry', d, k)
                IN  /\ TLe(before, after)
                    /\ TLt(TZero, before) => TLt(TZero, after)]_vars

\* C30 happens: a call has failed on a table that holds two readings of one
\* sensor at different times
C30_Witness ==
    /\ call.op = "StoreTelemetry"
    /\ call.err # Nil
    /\ \E r, q \in BagToSet(Telemetry) :
          /\ r.SensorKey = q.SensorKey
          /\ r.Timestamp # q.Timestamp

(***************************************************************************)
(* SpecApi: the API client against a remote that answers in any way        *)
(***************************************************************************)
\* most non-OK responses the remote gives to one call
MaxNonOK == 3

ApiSids == {"s1", "s2"}

LoginResponses ==
    {Response("transport", "", "", <<>>), Response("decode", "", "", <<>>),
     Response("body", "error", "", <<>>), Response("body", "OK", "", <<>>)}
    \cup {Response("body", "OK", sid, <<>>) : sid \in ApiSids}

ApiArgs ==
    {[deviceID |-> "d1", keys |-> <<"airtemp">>,
      tsFrom |-> T(1710000000, 0), tsTo |-> T(1710000900, 250)],
     [deviceID |-> "d2", keys |-> sensorKeys,
      tsFrom |-> T(1710000900, 251), tsTo |-> T(1712592900, 251)]}

ApiTelemetryItems ==
    {TelemetryData("airtemp", T(1710000000, 0), 1, ""),
     TelemetryData("airtemp", T(1710000900, 250), 0, ""),
     TelemetryData("soiltemp", T(1710000000, 0), 0, "n/a")}

\* the data of an OK response to a call of the method
ApiData(method) ==
    IF method = "GetTelemetry"
    THEN {<<>>} \cup {<<x>> : x \in ApiTelemetryItems}
                \cup {<<x, y>> : x \in ApiTelemetryItems, y \in ApiTelemetryItems}
    ELSE {<<>>, <<"d1">>, <<"d1", "d2">>}

DataResponses(method) ==
    {Response("transport", "", "", <<>>), Response("decode", "", "", <<>>),
     Response("body", "error", "", <<>>)}
    \cup {Response("body", "OK", "", data) : data \in ApiData(method)}

\* main: the Login at startup; the process exits when it fails
StartupLogin ==
    /\ req.pc = "start"
    /\ \E resp \in LoginResponses :
         \E r \in {Login(SessionID, resp)} :
            /\ SessionID' = r.sid
            /\ req' = [NoReq EXCEPT
                         !.pc = IF r.err = Nil THEN "idle" ELSE "exited",
                         !.method = "Login", !.logins = 1, !.resp = resp,
                         !.newSid = IF r.err = Nil THEN resp.sid ELSE "",
                         !.ret = [data |-> <<>>, err |-> r.err]]
    /\ UNCHANGED outsideApi

GetDevicesCall ==
    /\ req.pc = "idle"
    /\ req' = [NoReq EXCEPT !.pc = "enter", !.method = "GetDevices"]
    /\ UNCHANGED <<SessionID, outsideApi>>

GetTelemetryCall ==
    /\ req.pc = "idle"
    /\ \E args \in ApiArgs :
         req' = [NoReq EXCEPT !.pc = "enter", !.method = "GetTelemetry",
                              !.args = args]
    /\ UNCHANGED <<SessionID, outsideApi>>

\* the entry of GetDevices and of GetTelemetry: if w.SessionID == "" { Login }
ApiEnter ==
    /\ req.pc = "enter"
    /\ IF SessionID = ""
       THEN \E resp \in LoginResponses :
              \E r \in {Login(SessionID, resp)} :
                 /\ SessionID' = r.sid
                 /\ req' = [req EXCEPT
                              !.pc = IF r.err = Nil THEN "post" ELSE "idle",
                              !.logins = @ + 1, !.resp = resp,
                              !.newSid = IF r.err = Nil THEN resp.sid ELSE @,
                              !.ret = [data |-> <<>>, err |-> r.err]]
       ELSE /\ req' = [req EXCEPT !.pc = "post"]
            /\ UNCHANGED SessionID
    /\ UNCHANGED outsideApi

\* the request is posted and answered
ApiPost ==
    /\ req.pc = "post"
    /\ \E resp \in DataResponses(req.method) :
         /\ (resp.kind = "body" /\ resp.status # "OK") => req.nonOK < MaxNonOK
         /\ req' = [req EXCEPT
                      !.posts = @ + 1,
                      !.sent = Request(SessionID, req.args),
                      !.resp = resp,
                      !.nonOK = IF resp.kind = "body" /\ resp.status # "OK"
                                THEN @ + 1 ELSE @,
                      !.pc = IF resp.kind = "body" /\ resp.status # "OK"
                             THEN "relogin" ELSE "idle",
                      !.ret = IF resp.kind # "body"
                              THEN [data |-> <<>>, err |-> resp.kind]
                              ELSE IF resp.status # "OK" THEN @
                              ELSE [data |-> ResultOf(req.method, resp.data),
                                    err |-> Nil]]
    /\ UNCHANGED <<SessionID, outsideApi>>

\* status != "OK": Login, and on success the method calls itself with its
\* own arguments
ApiRelogin ==
    /\ req.pc = "relogin"
    /\ \E resp \in LoginResponses :
         \E r \in {Login(SessionID, resp)} :
            /\ SessionID' = r.sid
            /\ req' = [req EXCEPT
                         !.pc = IF r.err = Nil THEN "enter" ELSE "idle",
                         !.logins = @ + 1, !.resp = resp,
                         !.newSid = IF r.err = Nil THEN resp.sid ELSE @,
                         !.ret = [data |-> <<>>, err |-> r.err]]
    /\ UNCHANGED outsideApi

ApiNext ==
    \/ StartupLogin
    \/ GetDevicesCall
    \/ GetTelemetryCall
    \/ ApiEnter
    \/ ApiPost
    \/ ApiRelogin

\* the API client alone
ApiOnly == ApiInit /\ StoreInit /\ SyncOff /\ plan = Nil

SpecApi == ApiOnly /\ [][ApiNext]_vars

\* a GetDevices or GetTelemetry call has returned
Returned == req.pc = "idle" /\ req.method \in {"GetDevices", "GetTelemetry"}

\* C6: within one GetDevices or GetTelemetry call a non-OK status triggers at
\* most one re-login and at most one retry, and after a second non-OK status
\* the call has returned an error instead of logging in or retrying again
C6_AtMostOneReloginAndRetry ==
    req.method \in {"GetDevices", "GetTelemetry"}
        => /\ req.logins <= 1
           /\ req.posts <= 2
           /\ req.nonOK >= 2 => (Returned /\ req.ret.err # Nil)

\* C7: a returned call that got exactly one non-OK response and whose
\* re-login succeeded has made exactly one Login and exactly two requests, the
\* second with the sid the Login obtained and with the call's own arguments,
\* and when that request was answered OK the call returned its data, no error
C7_OneReloginOneRetry ==
    (Returned /\ req.nonOK = 1 /\ req.newSid # "")
        => /\ req.logins = 1
           /\ req.posts = 2
           /\ req.sent = Request(req.newSid, req.args)
           /\ (req.resp.kind = "body" /\ req.resp.status = "OK")
                 => /\ req.ret.err = Nil
                    /\ req.ret.data = ResultOf(req.method, req.resp.data)

\* C7 happens: a GetTelemetry call returned points after one non-OK response
\* and one re-login, its second request carrying the sid s2 of that Login
C7_Witness ==
    /\ Returned
    /\ req.method = "GetTelemetry"
    /\ req.nonOK = 1
    /\ req.logins = 1
    /\ req.ret.err = Nil
    /\ req.resp.data # <<>>
    /\ req.sent.sid = "s2"

\* C31: Login changes SessionID only when it succeeds: after a Login that
\* returned an error (the POST failed, the body did not decode, status
\* "error", or no sid) SessionID is what it was, after a Login that returned
\* nil it is the non-empty sid of the response; a devices or telemetry
\* request whose POST fails or whose body does not decode returns an error
\* with no Login and with SessionID unchanged, and no other step changes it
C31_SessionChangesOnlyOnLoginSuccess ==
    [][LET login == req'.logins = req.logins + 1
           post  == req'.posts = req.posts + 1
           bad   == \/ req'.resp.kind \in {"transport", "decode"}
                    \/ req'.resp.status = "error"
                    \/ req'.resp.sid = ""
       IN  /\ login => /\ req'.ret.err # Nil <=> bad
                       /\ bad => SessionID' = SessionID
                       /\ ~bad => (SessionID' = req'.resp.sid /\ SessionID' # "")
           /\ ~login => SessionID' = SessionID
           /\ (post /\ req'.resp.kind \in {"transport", "decode"})
                 => /\ ~login
                    /\ req'.pc = "idle"
                    /\ req'.ret.err # Nil]_vars

\* C31 happens: the re-login of a call failed while a session was held, and
\* the session is still held
C31_Witness ==
    /\ Returned
    /\ req.nonOK >= 1
    /\ req.logins >= 1
    /\ req.resp.kind = "body"
    /\ req.resp.status = "error"
    /\ req.ret.err = "auth"
    /\ SessionID # ""

(***************************************************************************)
(* SpecPlan: the planning step applied to drawn clock readings and drawn   *)
(* watermark reads.                                                        *)
(***************************************************************************)
\* number of consecutive local days the clock reading is drawn from
NumDays == 3

\* first of those days: 2024-03-30, so that now - 365d meets 2023-04-01
\* and now meets 2024-04-01
PlanDay0 == DaysFromCivil(2024, 3, 30)

\* offsets into the local day: midnight and noon, on and off the whole second
PlanDayOffsets == {T(0, 0), T(0, 500), T(12 * 60 * 60, 0), T(12 * 60 * 60, 500)}

PlanNows ==
    {T((PlanDay0 + d) * DaySec - TzOffsetSec + o.s, o.ms) :
        d \in 0..(NumDays - 1), o \in PlanDayOffsets}

\* the lastTs values a read may return, around the thresholds of the plan
PlanWatermarks(now) ==
    { TZero,
      TPred(now),
      TAddSec(now, 0 - 10 * 60),
      TSucc(TAddSec(now, 0 - MonthSec)),
      TAddSec(now, 0 - MonthSec),
      TPred(TAddSec(now, 0 - MonthSec)),
      TAddSec(now, 0 - 45 * DaySec),
      TPred(TAddSec(now, 0 - 60 * DaySec)),
      TAddSec(now, 0 - 100 * DaySec),
      now,
      TAddSec(now, 1) }

PlanInit ==
    /\ StoreInit
    /\ ApiInit
    /\ SyncOff
    /\ \E now \in PlanNows :
      \E reads \in [SensorKeySet -> [ts : PlanWatermarks(now), err : BOOLEAN]] :
        plan = [now |-> now, reads |-> reads, done |-> FALSE, out |-> Nil,
                doneSingle |-> FALSE, single |-> NoSinglePlan]

PlanDevice ==
    /\ ~plan.done
    /\ plan' = [plan EXCEPT !.done = TRUE, !.out = planOf(plan.now, plan.reads)]
    /\ UNCHANGED outsidePlan

\* the single-group processDevice plans the same device
PlanDeviceSingle ==
    /\ ~plan.doneSingle
    /\ plan' = [plan EXCEPT !.doneSingle = TRUE,
                            !.single = singleGroupPlanOf(plan.now, plan.reads)]
    /\ UNCHANGED outsidePlan

PlanNext ==
    \/ PlanDevice
    \/ PlanDeviceSingle

SpecPlan == PlanInit /\ [][PlanNext]_vars

----------------------------------------------------------------------------
(* Properties of the plans (SpecPlan)                                      *)

\* the lastTs values of the sensors that processDevice puts in the existing group
ExistingWatermarks(reads) ==
    {reads[k].ts : k \in {x \in SensorKeySet : IsExisting(reads[x])}}

\* w is the minimum watermark of the existing group
IsMinWatermark(w, reads) ==
    /\ w \in ExistingWatermarks(reads)
    /\ \A x \in ExistingWatermarks(reads) : TLe(w, x)

\* now - w <= 30 days
WithinMonth(now, w) == TLe(now, TAddSec(w, MonthSec))

\* C8: for every now and every minimum existing-sensor watermark w with
\* 0 < w < now and now - w <= 30 days, the existing group is requested over
\* exactly one window, from w + 1 to now.
C8_RecentWatermarkSingleWindow ==
    plan.done =>
        \A w \in ExistingWatermarks(plan.reads) :
            (/\ IsMinWatermark(w, plan.reads)
             /\ TLt(TZero, w) /\ TLt(w, plan.now)
             /\ WithinMonth(plan.now, w))
            => plan.out.existingPeriods = <<timePeriod(TSucc(w), plan.now)>>

\* C8 witness: a planned device whose minimum watermark is exactly 30 days old
C8_Witness ==
    /\ plan.done
    /\ \E w \in ExistingWatermarks(plan.reads) :
          /\ IsMinWatermark(w, plan.reads)
          /\ w = TAddSec(plan.now, 0 - MonthSec)
          /\ Len(plan.out.existingPeriods) = 1
          /\ Len(plan.out.existingSensors) = 2

\* the periods are contiguous: each starts where the previous one ends
Contiguous(P) == \A i \in 1..(Len(P) - 1) : P[i + 1].from = P[i].to

\* C9: for every now and every minimum existing-sensor watermark w with w > 0
\* and now - w > 30 days, the windows of the existing group are contiguous,
\* start at w + 1, end exactly at now, every window but possibly the last spans
\* exactly 30 days, and no window spans more than 30 days.
C9_OldWatermarkThirtyDayWindows ==
    plan.done =>
        \A w \in ExistingWatermarks(plan.reads) :
            (/\ IsMinWatermark(w, plan.reads)
             /\ TLt(TZero, w)
             /\ ~WithinMonth(plan.now, w))
            => LET P == plan.out.existingPeriods
               IN  /\ Len(P) >= 1
                   /\ P[1].from = TSucc(w)
                   /\ P[Len(P)].to = plan.now
                   /\ Contiguous(P)
                   /\ \A i \in 1..(Len(P) - 1) :
                          P[i].to = TAddSec(P[i].from, MonthSec)
                   /\ \A i \in 1..Len(P) :
                          TLe(P[i].to, TAddSec(P[i].from, MonthSec))

\* C9 witness: a watermark 100 days old, planned as three full windows and a
\* clipped fourth
C9_Witness ==
    /\ plan.done
    /\ \E w \in ExistingWatermarks(plan.reads) :
          /\ IsMinWatermark(w, plan.reads)
          /\ w = TAddSec(plan.now, 0 - 100 * DaySec)
          /\ Len(plan.out.existingPeriods) = 4
          /\ LET last == plan.out.existingPeriods[4]
             IN  TLt(last.to, TAddSec(last.from, MonthSec))

\* C10: for every now, the windows planned for a sensor without watermark are
\* contiguous and non-overlapping, the first starts exactly at now - 365 days
\* and the last ends exactly at now.
C10_BackfillCoversExactlyTheYear ==
    (plan.done /\ Len(plan.out.newSensors) > 0) =>
        LET P == plan.out.newPeriods
        IN  /\ Len(P) >= 1
            /\ P[1].from = TAddSec(plan.now, 0 - YearSec)
            /\ P[Len(P)].to = plan.now
            /\ Contiguous(P)
            /\ \A i \in 1..Len(P) : TLe(P[i].from, P[i].to)

\* 00:00 local time of the 1st of the month the instant t lies in
MonthOf(t) == MonthStart(LocalDate(t.s).y, LocalDate(t.s).m)

\* C11: in the plan of the sensors without watermark every window lies inside
\* one calendar month, and every window after the first starts at 00:00 local
\* time of the 1st of a month and ends at the 1st of the next month or at now,
\* whichever is earlier
C11_BackfillWindowsAreCalendarMonths ==
    (plan.done /\ Len(plan.out.newSensors) > 0) =>
        LET P == plan.out.newPeriods
        IN  /\ \A i \in 1..Len(P) :
                  /\ TLe(P[i].from, P[i].to)
                  /\ TLe(P[i].to, T(AddMonth(MonthOf(P[i].from)), 0))
            /\ \A i \in 2..Len(P) :
                  /\ P[i].from = T(MonthOf(P[i].from), 0)
                  /\ P[i].to = TMin(T(AddMonth(MonthOf(P[i].from)), 0), plan.now)

\* C11 happens: a year planned from the middle of a day that is not the 1st,
\* as a partial month, eleven whole months and a month clipped at now
C11_Witness ==
    /\ plan.done
    /\ Len(plan.out.newSensors) > 0
    /\ Len(plan.out.newPeriods) = 13
    /\ plan.out.newPeriods[1].from # T(MonthOf(plan.out.newPeriods[1].from), 0)
    /\ plan.out.newPeriods[13].to = plan.now
    /\ plan.now.ms # 0

\* C12: every window that processDevice passes to GetTelemetry, of the new
\* group and of the existing group, for every combination of watermarks and
\* now, has from < to
C12_RequestedWindowsNonEmpty ==
    plan.done =>
        /\ \A i \in 1..Len(plan.out.newPeriods) :
              TLt(plan.out.newPeriods[i].from, plan.out.newPeriods[i].to)
        /\ \A i \in 1..Len(plan.out.existingPeriods) :
              TLt(plan.out.existingPeriods[i].from, plan.out.existingPeriods[i].to)

\* C13: when every existing sensor's watermark is at or after now, the plan
\* of the existing group is the empty sequence of windows
C13_FutureWatermarkPlansNothing ==
    (/\ plan.done
     /\ Len(plan.out.existingSensors) > 0
     /\ \A w \in ExistingWatermarks(plan.reads) : TLe(plan.now, w))
        => plan.out.existingPeriods = <<>>

\* C14: for every existing sensor with a watermark w before now, the windows
\* of the existing group start at the minimum watermark of the group plus
\* 1 ms, which is not after w + 1, and run without a hole up to now
C14_ExistingWindowsCoverEveryGap ==
    plan.done =>
        \A k \in SensorKeySet :
            (IsExisting(plan.reads[k]) /\ TLt(plan.reads[k].ts, plan.now))
            => LET P == plan.out.existingPeriods
               IN  /\ Len(P) >= 1
                   /\ \E m \in ExistingWatermarks(plan.reads) :
                         /\ IsMinWatermark(m, plan.reads)
                         /\ P[1].from = TSucc(m)
                   /\ TLe(P[1].from, TSucc(plan.reads[k].ts))
                   /\ Contiguous(P)
                   /\ P[Len(P)].to = plan.now

\* C14 happens: two existing sensors, the second read with the older
\* watermark, 100 days back, the first 10 minutes back
C14_Witness ==
    /\ plan.done
    /\ Len(plan.out.existingSensors) = 2
    /\ plan.reads[sensorKeys[1]].ts = TAddSec(plan.now, 0 - 10 * 60)
    /\ plan.reads[sensorKeys[2]].ts = TAddSec(plan.now, 0 - 100 * DaySec)
    /\ Len(plan.out.existingPeriods) = 4

\* C32: in the single-group processDevice, when at least one sensor has a
\* watermark (all of them before now), the first requested window starts at
\* the minimum watermark plus 1 ms, so that no sensor's range after its own
\* watermark is left out; with one watermark T = now - 10 minutes for every
\* sensor the only window is from T + 1 to now
C32_SingleGroupStartsAtMinWatermark ==
    plan.doneSingle =>
        ((/\ ExistingWatermarks(plan.reads) # {}
          /\ \A w \in ExistingWatermarks(plan.reads) : TLt(w, plan.now))
         => LET P == plan.single.periods
            IN  /\ Len(P) >= 1
                /\ \E m \in ExistingWatermarks(plan.reads) :
                      /\ IsMinWatermark(m, plan.reads)
                      /\ P[1].from = TSucc(m)
                /\ \A w \in ExistingWatermarks(plan.reads) :
                      TLe(P[1].from, TSucc(w))
                /\ (\A k \in SensorKeySet :
                       /\ ~plan.reads[k].err
                       /\ plan.reads[k].ts = TAddSec(plan.now, 0 - 10 * 60))
                     => P = <<timePeriod(TSucc(TAddSec(plan.now, 0 - 10 * 60)),
                                         plan.now)>>)

(***************************************************************************)
(* Spec: the worker running sync cycles against a fixed remote, with       *)
(* failures of the remote and of the database                              *)
(***************************************************************************)
\* cycles the worker starts
MaxCycles == 3

\* failures of the remote or of the database in one run
MaxFaults == 1

\* the clock at the first cycle: 2024-03-15 12:00:00 local time
SyncClock0 == T(DaysFromCivil(2024, 3, 15) * DaySec - TzOffsetSec + 12 * 60 * 60, 0)

DaysAgo(days) == T(SyncClock0.s - days * DaySec, 0)

SyncDevices == <<"d1", "d2">>

\* what the remote holds: it answers every request from the same data
SyncRemotes ==
    {[devices |-> SyncDevices,
      data |-> [d \in {"d1", "d2"} |->
                  IF d = "d1"
                  THEN <<TelemetryData("airtemp", DaysAgo(10), 1, ""),
                         TelemetryData("airtemp", DaysAgo(50), 2, ""),
                         TelemetryData("soiltemp", DaysAgo(55), 3, ""),
                         TelemetryData("soiltemp", DaysAgo(56), 0, "N/A")>>
                  ELSE <<TelemetryData("airtemp", DaysAgo(100), 1, "")>>]],
     [devices |-> SyncDevices,
      data |-> [d \in {"d1", "d2"} |->
                  IF d = "d1"
                  THEN <<TelemetryData("airtemp", DaysAgo(20), 0, ""),
                         TelemetryData("soiltemp", DaysAgo(20), 2, "")>>
                  ELSE <<>>]]}

Init ==
    /\ StoreInit
    /\ ApiInit
    /\ plan = Nil
    /\ clock = SyncClock0
    /\ remote \in SyncRemotes
    /\ sync = NoSync
    /\ obs = NoObs
    /\ sched = NoSched

\* a failure may still be injected
MayFail == obs.faults < MaxFaults

\* the device processDevice is working on
Device == sync.devices[sync.di]

\* the first cycle starts at once, each later one at a tick of the ticker;
\* collectData: GetDevices returns the devices
CollectData ==
    /\ sync.pc = "idle"
    /\ sync.cycle < MaxCycles
    /\ clock' = IF sync.cycle = 0 THEN clock
                ELSE TAddSec(clock, CollectionIntervalSec)
    /\ sync' = [NoSync EXCEPT !.pc = "stations", !.cycle = sync.cycle + 1,
                              !.devices = remote.devices]
    /\ obs' = [obs EXCEPT !.clean = TRUE, !.log = <<>>, !.processed = <<>>,
                          !.failedPrev = obs.failed, !.failed = {},
                          !.listFailed = FALSE]
    /\ UNCHANGED <<dbVars, remote, outsideSync>>

\* a faulty variant of CollectDataNoDevices: the error is logged and the
\* cycle goes on with the devices
CollectDataIgnoresError ==
    /\ sync.pc = "idle"
    /\ sync.cycle < MaxCycles
    /\ MayFail
    /\ clock' = IF sync.cycle = 0 THEN clock
                ELSE TAddSec(clock, CollectionIntervalSec)
    /\ sync' = [NoSync EXCEPT !.pc = "stations", !.cycle = sync.cycle + 1,
                              !.devices = remote.devices]
    /\ obs' = [obs EXCEPT !.faults = @ + 1, !.clean = FALSE, !.log = <<>>,
                          !.processed = <<>>, !.failedPrev = obs.failed,
                          !.failed = {}, !.listFailed = TRUE]
    /\ UNCHANGED <<dbVars, remote, outsideSync>>

\* collectData: GetDevices returns an error, the cycle ends
CollectDataNoDevices ==
    /\ sync.pc = "idle"
    /\ sync.cycle < MaxCycles
    /\ MayFail
    /\ clock' = IF sync.cycle = 0 THEN clock
                ELSE TAddSec(clock, CollectionIntervalSec)
    /\ sync' = [NoSync EXCEPT !.pc = "cycleDone", !.cycle = sync.cycle + 1]
    /\ obs' = [obs EXCEPT !.faults = @ + 1, !.clean = FALSE, !.log = <<>>,
                          !.processed = <<>>, !.failedPrev = obs.failed,
                          !.failed = {}, !.listFailed = TRUE]
    /\ UNCHANGED <<dbVars, remote, outsideSync>>

\* collectData: StoreStations(devices); its error is only logged
StoreStationsStep ==
    /\ sync.pc = "stations"
    /\ \E fault \in Faults(1) :
         /\ fault # NoFault => MayFail
         /\ \E r \in {StoreStations(Stations, sync.devices, fault)} :
              /\ Stations' = r.stations
              /\ obs' = [obs EXCEPT
                           !.faults = IF fault # NoFault THEN @ + 1 ELSE @,
                           !.clean = @ /\ r.err = Nil]
    /\ sync' = [sync EXCEPT !.pc = "device", !.di = 1]
    /\ UNCHANGED <<Telemetry, clock, remote, outsideSync>>

\* a call made for the device: GetLatestTelemetryTimestamp of a sensor,
\* GetTelemetry or StoreTelemetry
Op(op, key) == [op |-> op, key |-> key]

\* the loop over sensorKeys: one watermark read per key, in order
ReadOps(keys) == [i \in 1..Len(keys) |-> Op("read", keys[i])]

\* a faulty variant of ProcessDeviceStart: only the first sensor's watermark
\* is read before the requests start
ProcessDeviceStartOneRead ==
    /\ sync.pc = "device"
    /\ sync.di <= Len(sync.devices)
    /\ \E errs \in SUBSET SensorKeySet :
         /\ obs.faults + Cardinality(errs) <= MaxFaults
         /\ \E reads \in {[k \in SensorKeySet |->
                             IF k \in errs THEN [ts |-> TZero, err |-> TRUE]
                             ELSE [ts |-> GetLatestTelemetryTimestamp(
                                              Telemetry, Device, k),
                                   err |-> FALSE]]} :
              /\ sync' = [sync EXCEPT !.pc = "new", !.now = clock,
                                      !.reads = reads,
                                      !.out = planOf(clock, reads),
                                      !.pi = 1, !.total = 0]
              /\ obs' = [obs EXCEPT !.faults = @ + Cardinality(errs),
                                    !.clean = @ /\ errs = {},
                                    !.log = <<>>, !.written = 0,
                                    !.ops = ReadOps(<<sensorKeys[1]>>)]
    /\ UNCHANGED <<dbVars, clock, remote, outsideSync>>

\* processDevice up to the first request: now, the watermark reads (those of
\* the keys in errs fail), the two groups and their periods
ProcessDeviceStart ==
    /\ sync.pc = "device"
    /\ sync.di <= Len(sync.devices)
    /\ \E errs \in SUBSET SensorKeySet :
         /\ obs.faults + Cardinality(errs) <= MaxFaults
         /\ \E reads \in {[k \in SensorKeySet |->
                             IF k \in errs THEN [ts |-> TZero, err |-> TRUE]
                             ELSE [ts |-> GetLatestTelemetryTimestamp(
                                              Telemetry, Device, k),
                                   err |-> FALSE]]} :
              /\ sync' = [sync EXCEPT !.pc = "new", !.now = clock,
                                      !.reads = reads,
                                      !.out = planOf(clock, reads),
                                      !.pi = 1, !.total = 0]
              /\ obs' = [obs EXCEPT !.faults = @ + Cardinality(errs),
                                    !.clean = @ /\ errs = {},
                                    !.log = <<>>, !.written = 0,
                                    !.ops = ReadOps(sensorKeys)]
    /\ UNCHANGED <<dbVars, clock, remote, outsideSync>>

\* a requested window
Window(deviceID, keys, period) ==
    [dev |-> deviceID, keys |-> keys, from |-> period.from, to |-> period.to]

\* one pass of a loop over periods: GetTelemetry(device, keys, from, to), which
\* fails when fetchErr, then processAndSaveTelemetry under the fault
RequestWindow(keys, periods, fetchErr, fault) ==
    \E r \in {IF fetchErr
               THEN [tbl |-> Telemetry, err |-> "fetch", count |-> 0,
                     written |-> 0]
               ELSE processAndSaveTelemetry(Telemetry, Stations, Device,
                        ConvertTelemetry(RemoteTelemetry(remote, Device, keys,
                            periods[sync.pi].from, periods[sync.pi].to)),
                        fault)} :
        /\ (fetchErr \/ fault # NoFault) => MayFail
        /\ Telemetry' = r.tbl
        /\ sync' = [sync EXCEPT
                      !.pi = NextWindow(sync.pi, Len(periods), r.err # Nil),
                      !.total = @ + r.count]
        /\ obs' = [obs EXCEPT
                     !.faults = IF fetchErr \/ fault # NoFault THEN @ + 1 ELSE @,
                     !.clean = @ /\ r.err = Nil,
                     !.written = @ + r.written,
                     !.ops = IF fetchErr \/ (r.err = Nil /\ r.count = 0)
                             THEN Append(@, Op("fetch", ""))
                             ELSE @ \o <<Op("fetch", ""), Op("store", "")>>,
                     !.log = Append(@, Window(Device, keys, periods[sync.pi])),
                     !.failed = IF r.err = Nil THEN @
                                ELSE @ \cup {Window(Device, keys,
                                                    periods[sync.pi])}]
        /\ UNCHANGED <<Stations, clock, remote, outsideSync>>

\* the faults the database can give the store of the window's telemetry: none
\* when the map has no point, because StoreTelemetry is not called then
WindowFaults(keys, period) ==
    LET telemetry == ConvertTelemetry(RemoteTelemetry(remote, Device, keys,
                                                      period.from, period.to))
    IN  IF recordsCountOf(telemetry) = 0 THEN {NoFault}
        ELSE Faults(Len(RowsOf(Device, telemetry)))

\* the loop over the monthly periods of the new sensors
RequestNewWindow ==
    /\ sync.pc = "new"
    /\ sync.pi <= Len(sync.out.newPeriods)
    /\ \/ RequestWindow(sync.out.newSensors, sync.out.newPeriods, TRUE, NoFault)
       \/ \E fault \in WindowFaults(sync.out.newSensors,
                                     sync.out.newPeriods[sync.pi]) :
            RequestWindow(sync.out.newSensors, sync.out.newPeriods, FALSE, fault)

\* the remote holds a number for the sensor in the year before now: dbl_v
\* carries it and str_v is empty
ReportsNumeric(rem, deviceID, key, now) ==
    \E i \in 1..Len(rem.data[deviceID]) :
        LET d == rem.data[deviceID][i]
        IN  /\ d.Key = key
            /\ d.StrV = ""
            /\ TLe(TAddSec(now, -YearSec), d.Ts)
            /\ TLe(d.Ts, now)

\* the new sensors of the device whose monthly periods were all fetched and
\* stored without an error, and for which the remote holds a number
BackfilledNow ==
    IF \E i \in 1..Len(obs.log) : obs.log[i] \in obs.failed THEN {}
    ELSE {k \in SensorKeySet :
            /\ \E i \in 1..Len(sync.out.newSensors) : sync.out.newSensors[i] = k
            /\ ReportsNumeric(remote, Device, k, sync.now)}

\* the loop over the monthly periods has ended
NewSensorsDone ==
    /\ sync.pc = "new"
    /\ sync.pi > Len(sync.out.newPeriods)
    /\ sync' = [sync EXCEPT !.pc = "existing", !.pi = 1]
    /\ obs' = [obs EXCEPT
                 !.backfilled = @ \cup
                     {[dev |-> Device, key |-> k, cycle |-> sync.cycle] :
                        k \in {x \in BackfilledNow :
                                 ~\E b \in obs.backfilled :
                                     b.dev = Device /\ b.key = x}}]
    /\ UNCHANGED <<dbVars, clock, remote, outsideSync>>

\* the loop over the periods of the existing sensors
RequestExistingWindow ==
    /\ sync.pc = "existing"
    /\ sync.pi <= Len(sync.out.existingPeriods)
    /\ \/ RequestWindow(sync.out.existingSensors, sync.out.existingPeriods,
                        TRUE, NoFault)
       \/ \E fault \in WindowFaults(sync.out.existingSensors,
                                     sync.out.existingPeriods[sync.pi]) :
            RequestWindow(sync.out.existingSensors, sync.out.existingPeriods,
                          FALSE, fault)

\* processDevice returns
ProcessDeviceDone ==
    /\ sync.pc = "existing"
    /\ sync.pi > Len(sync.out.existingPeriods)
    /\ sync' = [sync EXCEPT !.pc = "deviceDone"]
    /\ obs' = [obs EXCEPT !.processed = Append(@, Device)]
    /\ UNCHANGED <<dbVars, clock, remote, outsideSync>>

\* collectData: the next device of the loop
NextDevice ==
    /\ sync.pc = "deviceDone"
    /\ sync' = [sync EXCEPT !.pc = "device", !.di = @ + 1]
    /\ UNCHANGED <<dbVars, clock, remote, obs, outsideSync>>

\* collectData: the loop over the devices has ended
CollectDataDone ==
    /\ sync.pc = "device"
    /\ sync.di > Len(sync.devices)
    /\ sync' = [sync EXCEPT !.pc = "cycleDone"]
    /\ UNCHANGED <<dbVars, clock, remote, obs, outsideSync>>

\* the worker is back in its loop, waiting for the next tick
AwaitTick ==
    /\ sync.pc = "cycleDone"
    /\ sync' = [sync EXCEPT !.pc = "idle"]
    /\ obs' = [obs EXCEPT !.prev = [cycle |-> sync.cycle, clean |-> obs.clean,
                                    count |-> BagCardinality(Telemetry)]]
    /\ UNCHANGED <<dbVars, clock, remote, outsideSync>>

Next ==
    \/ CollectData
    \/ CollectDataNoDevices
    \/ StoreStationsStep
    \/ ProcessDeviceStart
    \/ RequestNewWindow
    \/ NewSensorsDone
    \/ RequestExistingWindow
    \/ ProcessDeviceDone
    \/ NextDevice
    \/ CollectDataDone
    \/ AwaitTick

Spec == Init /\ [][Next]_vars

(***************************************************************************)
(* Properties of the sync cycles                                           *)
(***************************************************************************)
\* C3: when a cycle without any failure follows a cycle without any failure,
\* against a remote that answers from the same data, the number of stored
\* readings at its end is the number at the end of the cycle before it
C3_ResyncKeepsCount ==
    (sync.pc = "cycleDone" /\ obs.clean /\ obs.prev.clean
        /\ obs.prev.cycle + 1 = sync.cycle)
        => BagCardinality(Telemetry) = obs.prev.count

KeysOf(w) == {w.keys[i] : i \in 1..Len(w.keys)}

TMax(a, b) == IF TLt(a, b) THEN b ELSE a

\* the periods the plan has for the sensor key
PeriodsFor(out, k) ==
    IF \E i \in 1..Len(out.newSensors) : out.newSensors[i] = k
    THEN out.newPeriods ELSE out.existingPeriods

\* the periods reach from the start of the window w, or from a year before
\* now where w starts earlier, to the end of w
Covers(P, w, now) ==
    /\ Len(P) > 0
    /\ TLe(P[1].from, TMax(w.from, TAddSec(now, 0 - YearSec)))
    /\ TLe(w.to, P[Len(P)].to)

\* C4: while a device is processed, the watermark of a sensor of a failed
\* window of the cycle (a watermark that was not beyond the window when the
\* device was planned) has not advanced past the window; and the plan of the
\* next cycle for the sensors of a failed window covers the window again
C4_FailedWindowKeepsWatermark ==
    /\ sync.pc \in {"new", "existing", "deviceDone"}
         => \A w \in obs.failed : \A k \in KeysOf(w) :
              (w.dev = Device /\ ~sync.reads[k].err
                  /\ TLe(sync.reads[k].ts, w.to))
                => TLe(GetLatestTelemetryTimestamp(Telemetry, w.dev, k), w.to)
    /\ (sync.pc = "new" /\ sync.pi = 1 /\ obs.log = <<>>)
         => \A w \in obs.failedPrev : \A k \in KeysOf(w) :
              w.dev = Device => Covers(PeriodsFor(sync.out, k), w, sync.now)

\* the windows the plan of the device has: those of the new sensors, then
\* those of the existing sensors
PlannedWindows ==
    [i \in 1..Len(sync.out.newPeriods) |->
        Window(Device, sync.out.newSensors, sync.out.newPeriods[i])]
    \o [i \in 1..Len(sync.out.existingPeriods) |->
        Window(Device, sync.out.existingSensors, sync.out.existingPeriods[i])]

\* C5: whatever failed, when processDevice returns every planned window of
\* both groups has been requested exactly once, in order, and when the loop
\* of collectData ends every device of the list has been processed
C5_FailedWindowSkippedOnly ==
    /\ sync.pc = "deviceDone" => obs.log = PlannedWindows
    /\ (sync.pc = "cycleDone" /\ sync.devices # <<>>)
         => obs.processed = sync.devices

\* C5 happens: a window of the first device failed that was not the last of
\* its group, and the cycle has ended with both devices processed
C5_Witness ==
    /\ sync.pc = "cycleDone"
    /\ Len(sync.devices) = 2
    /\ obs.processed = sync.devices
    /\ \E w \in obs.failed :
         /\ w.dev = sync.devices[1]
         /\ TLt(w.to, sync.now)

\* processDevice has just planned the device: no window requested yet
JustPlanned == sync.pc = "new" /\ sync.pi = 1 /\ obs.log = <<>>

\* C16: when the watermark read of a sensor fails, the sensor is in the new
\* group and the group has the 365-day plan, the watermarks of the other
\* sensors are those read from storage, and the device is processed: when
\* processDevice returns, every window of the plan has been requested
C16_FailedReadMeansBackfill ==
    sync.pc \in {"new", "existing", "deviceDone"} =>
        \A k \in SensorKeySet :
            sync.reads[k].err =>
                /\ \E i \in 1..Len(sync.out.newSensors) :
                      sync.out.newSensors[i] = k
                /\ sync.out.newPeriods =
                      splitTimePeriodByMonth(TAddSec(sync.now, 0 - YearSec),
                                             sync.now)
                /\ JustPlanned =>
                      \A k2 \in SensorKeySet :
                          ~sync.reads[k2].err =>
                              sync.reads[k2].ts = GetLatestTelemetryTimestamp(
                                                      Telemetry, Device, k2)
                /\ sync.pc = "deviceDone" =>
                      /\ obs.log = PlannedWindows
                      /\ Len(obs.log) >= Len(sync.out.newPeriods)

\* C16 happens: the read of one sensor failed while the other sensor has a
\* watermark, and processDevice has returned after the windows of both groups
C16_Witness ==
    /\ sync.pc = "deviceDone"
    /\ \E k \in SensorKeySet : sync.reads[k].err
    /\ Len(sync.out.newSensors) = 1
    /\ Len(sync.out.existingSensors) = 1
    /\ Len(obs.log) = Len(sync.out.newPeriods) + Len(sync.out.existingPeriods)
    /\ Len(sync.out.existingPeriods) >= 1

\* C19: the number of records reported for the windows of a device (the
\* counts returned by processAndSaveTelemetry, added up in totalRecordsCount)
\* is the number of points StoreTelemetry wrote: the fetched points whose
\* value is not numeric are not counted
C19_ReportedCountIsRowsWritten ==
    sync.pc \in {"new", "existing", "deviceDone"} => sync.total = obs.written

\* C20: the backfill of a year is done once for a sensor: after a cycle in
\* which every monthly period of a new sensor was fetched and stored without
\* an error, the remote holding a number for the sensor in that year, no
\* later cycle has the sensor among the new sensors
C20_BackfillOnlyOnce ==
    sync.pc \in {"new", "existing", "deviceDone"} =>
        \A b \in obs.backfilled :
            (b.dev = Device /\ b.cycle < sync.cycle) =>
                ~\E i \in 1..Len(sync.out.newSensors) :
                      sync.out.newSensors[i] = b.key

\* C21: when GetDevices returns an error, collectData ends the cycle with no
\* station upsert, no watermark read, no telemetry request and no telemetry
\* store, and the worker can start a fresh cycle at the next tick
C21_FailedListingEndsCycle ==
    /\ [](obs.listFailed =>
            /\ sync.pc \in {"cycleDone", "idle"}
            /\ sync.reads = NoReads
            /\ obs.log = <<>>
            /\ obs.processed = <<>>
            /\ sync.pc = "cycleDone" => ENABLED AwaitTick
            /\ (sync.pc = "idle" /\ sync.cycle < MaxCycles)
                  => ENABLED CollectData)
    /\ [][obs'.listFailed => UNCHANGED dbVars]_vars

\* C21 happens: GetDevices failed in the second cycle, after a cycle that
\* stored readings
C21_Witness ==
    /\ obs.listFailed
    /\ sync.pc = "cycleDone"
    /\ sync.cycle = 2
    /\ BagCardinality(Telemetry) > 0

\* C23: for every device of a cycle, the watermark read of every sensor is
\* made, once, before any GetTelemetry request and any StoreTelemetry write
\* for the device; the calls are made one after the other, a store directly
\* after the fetch whose points it writes
C23_ReadsBeforeFetchAndStore ==
    sync.pc \in {"new", "existing", "deviceDone"} =>
        LET n == Len(sensorKeys) IN
        /\ Len(obs.ops) >= n
        /\ \A i \in 1..Len(obs.ops) :
              /\ i <= n => obs.ops[i] = Op("read", sensorKeys[i])
              /\ i > n => obs.ops[i].op \in {"fetch", "store"}
              /\ obs.ops[i].op = "store" => i > n + 1 /\ obs.ops[i-1].op = "fetch"

\* C23 happens: processDevice has returned after a fetch and a store
C23_Witness ==
    /\ sync.pc = "deviceDone"
    /\ \E i \in 1..Len(obs.ops) : obs.ops[i].op = "store"
    /\ \E k \in SensorKeySet : sync.reads[k].err

\* the items the remote holds for a window that carry a number (dbl_v, with
\* an empty str_v), the number 0 included
NumericItems(w) ==
    LET data == RemoteTelemetry(remote, w.dev, w.keys, w.from, w.to)
    IN  {data[i] : i \in {j \in 1..Len(data) : data[j].StrV = ""}}

\* C28: every point the remote reports with a numeric value, the value 0
\* included, in a window whose fetch and store both succeeded is a stored
\* reading with that value
C28_NumericPointsAreStored ==
    \A i \in 1..Len(obs.log) :
        obs.log[i] \notin obs.failed =>
            \A d \in NumericItems(obs.log[i]) :
                StoredAs(Telemetry,
                         TelemetryRow(obs.log[i].dev, d.Key,
                                      TelemetryPoint(d.Ts, NumV(d.DblV))))

\* the number of places at which key occurs in the sequence keys
Occurrences(keys, key) == Cardinality({i \in 1..Len(keys) : keys[i] = key})

\* C29: for every device in every cycle each sensor key is in exactly one of
\* the two groups; the requests over the monthly periods carry the keys of
\* the new group, those over the periods from the watermark carry the keys of
\* the existing group, and a group without keys makes no request
C29_KeysPartitionedIntoGroups ==
    sync.pc \in {"new", "existing", "deviceDone"} =>
        LET out == sync.out
            nNew == Len(out.newPeriods)
        IN  /\ \A k \in SensorKeySet :
                  Occurrences(out.newSensors, k)
                      + Occurrences(out.existingSensors, k) = 1
            /\ Len(out.newSensors) = 0 => out.newPeriods = <<>>
            /\ Len(out.existingSensors) = 0 => out.existingPeriods = <<>>
            /\ Len(obs.log) <= nNew + Len(out.existingPeriods)
            /\ \A i \in 1..Len(obs.log) :
                  IF i <= nNew
                  THEN obs.log[i] = Window(Device, out.newSensors,
                                           out.newPeriods[i])
                  ELSE obs.log[i] = Window(Device, out.existingSensors,
                                           out.existingPeriods[i - nNew])

\* C29 happens: with every watermark read, one sensor was new and the other
\* existing, and processDevice has returned after the requests of both groups
C29_Witness ==
    /\ sync.pc = "deviceDone"
    /\ \A k \in SensorKeySet : ~sync.reads[k].err
    /\ Len(sync.out.newSensors) = 1
    /\ Len(sync.out.existingSensors) = 1
    /\ Len(sync.out.existingPeriods) >= 1
    /\ Len(obs.log) = Len(sync.out.newPeriods) + Len(sync.out.existingPeriods)

(***************************************************************************)
(* SpecWatermark: the watermark reads and the classification of            *)
(* processDevice over the tables that StoreTelemetry can leave             *)
(***************************************************************************)
WatermarkDevice == "d1"

\* the timestamps of the points the remote reports: 0 (a point without "ts"
\* decodes to it) and two instants of March 2024
WatermarkTimes == {TZero, T(1710000000, 0), T(1710000900, 250)}

\* the clock reading of processDevice
WatermarkNow == T(1710500400, 0)

NotPlanned ==
    [now |-> WatermarkNow, reads |-> NoReads, done |-> FALSE, out |-> NoPlan]

WatermarkInit ==
    /\ StoreInit
    /\ ApiInit
    /\ SyncOff
    /\ plan = NotPlanned

\* collectData has stored the station
WatermarkStoreStations ==
    /\ Stations = {}
    /\ Stations' = StoreStations(Stations, <<WatermarkDevice>>, NoFault).stations
    /\ plan' = NotPlanned
    /\ UNCHANGED <<Telemetry, outsideWatermark>>

\* a point of the station is stored
WatermarkStoreTelemetry ==
    /\ \E k \in SensorKeySet, t \in WatermarkTimes :
         \E r \in {StoreTelemetry(Telemetry, Stations, WatermarkDevice,
                                  [x \in {k} |-> <<TelemetryPoint(t, NumV(1))>>],
                                  NoFault)} :
            /\ r.tbl # Telemetry
            /\ Telemetry' = r.tbl
    /\ plan' = NotPlanned
    /\ UNCHANGED <<Stations, outsideWatermark>>

\* processDevice reads the watermarks (the reads of the keys in errs fail)
\* and classifies the sensors
WatermarkProcessDevice ==
    /\ ~plan.done
    /\ \E errs \in SUBSET SensorKeySet :
         \E reads \in {[k \in SensorKeySet |->
                          IF k \in errs THEN [ts |-> TZero, err |-> TRUE]
                          ELSE [ts |-> GetLatestTelemetryTimestamp(
                                           Telemetry, WatermarkDevice, k),
                                err |-> FALSE]]} :
            plan' = [now |-> WatermarkNow, reads |-> reads, done |-> TRUE,
                     out |-> planOf(WatermarkNow, reads)]
    /\ UNCHANGED <<dbVars, outsideWatermark>>

WatermarkNext ==
    \/ WatermarkStoreStations
    \/ WatermarkStoreTelemetry
    \/ WatermarkProcessDevice

SpecWatermark == WatermarkInit /\ [][WatermarkNext]_vars

\* the stored readings of the pair (station, sensor)
ReadingsOf(tbl, stationID, sensorKey) ==
    {r \in BagToSet(tbl) : r.StationID = stationID /\ r.SensorKey = sensorKey}

InSeq(x, seq) == \E i \in 1..Len(seq) : seq[i] = x

\* C15: when its watermark read succeeds, a sensor is in the new group if and
\* only if storage holds no reading of the pair; with a stored reading,
\* whatever its timestamp, it is in the existing group and its watermark is
\* the greatest stored timestamp of the pair
C15_NewIffNoStoredReading ==
    plan.done =>
        \A k \in SensorKeySet :
            ~plan.reads[k].err =>
                LET rows == ReadingsOf(Telemetry, WatermarkDevice, k)
                IN  /\ InSeq(k, plan.out.newSensors) <=> rows = {}
                    /\ rows # {} =>
                          /\ InSeq(k, plan.out.existingSensors)
                          /\ \E r \in rows :
                                /\ r.Timestamp = plan.reads[k].ts
                                /\ \A q \in rows : TLe(q.Timestamp, r.Timestamp)

(***************************************************************************)
(* SpecSched: main, its worker goroutine, the ticker and the stop channel. *)
(* A cycle is kept to its calls in order: GetDevices, then one             *)
(* processDevice per device; a remote call that is answered with a non-OK  *)
(* status logs in and calls itself again.                                  *)
(***************************************************************************)
\* the devices GetDevices returns
NumSchedDevices == 2

\* the SIGINT / SIGTERM signals the process is sent
MaxSignals == 2

\* the process is alive: main has neither returned nor called log.Fatalf
Alive == sched.main \notin {"done", "exited"}

\* main: weatherAPI.Login() succeeds
SchedLogin ==
    /\ sched.main = "login"
    /\ sched' = [sched EXCEPT !.main = "setup"]
    /\ UNCHANGED outsideSched

\* a faulty variant of SchedLoginFails: the error is logged and main goes on
SchedLoginFailsGoesOn ==
    /\ sched.main = "login"
    /\ sched' = [sched EXCEPT !.main = "setup", !.loginFailed = TRUE]
    /\ UNCHANGED outsideSched

\* main: weatherAPI.Login() fails, log.Fatalf ends the process
SchedLoginFails ==
    /\ sched.main = "login"
    /\ sched' = [sched EXCEPT !.main = "exited", !.loginFailed = TRUE]
    /\ UNCHANGED outsideSched

\* main: NewDBManager and CreateTablesIfNotExists succeed, signal.Notify, and
\* the worker goroutine is started
SchedSetup ==
    /\ sched.main = "setup"
    /\ sched' = [sched EXCEPT !.main = "waitStop", !.worker = "start",
                              !.dbOpen = TRUE]
    /\ UNCHANGED outsideSched

\* main: NewDBManager or CreateTablesIfNotExists fails, log.Fatalf
SchedSetupFails ==
    /\ sched.main = "setup"
    /\ sched' = [sched EXCEPT !.main = "exited"]
    /\ UNCHANGED outsideSched

\* the process is sent SIGINT or SIGTERM: signal.Notify's send does not
\* block, the signal is dropped when the channel of capacity 1 is full
SchedSignal ==
    /\ Alive
    /\ sched.main \in {"waitStop", "waitWg"}
    /\ sched.signals < MaxSignals
    /\ sched' = [sched EXCEPT
                   !.signals = @ + 1, !.stopChan = 1,
                   !.stopInCycle = @ \/ sched.worker \in
                       {"list", "relogin", "device", "processing"}]
    /\ UNCHANGED outsideSched

\* a faulty variant of SchedTick: every tick runs collectData in a goroutine
\* of its own
SchedTickRunsCycle ==
    /\ Alive
    /\ sched.ticker
    /\ sched.worker # "returned"
    /\ sched' = [sched EXCEPT !.active = @ + 1]
    /\ UNCHANGED outsideSched

\* the ticker fires: ticker.C has capacity 1, a tick on a full channel is
\* dropped
SchedTick ==
    /\ Alive
    /\ sched.ticker
    /\ sched.worker # "returned"
    /\ sched.tick = 0
    /\ sched' = [sched EXCEPT !.tick = 1]
    /\ UNCHANGED outsideSched

\* main: <-stopChan
MainRecvStop ==
    /\ sched.main = "waitStop"
    /\ sched.stopChan = 1
    /\ sched' = [sched EXCEPT !.main = "waitWg", !.stopChan = 0]
    /\ UNCHANGED outsideSched

\* main: wg.Wait() returns once the worker has returned (wg.Done)
MainWgWait ==
    /\ sched.main = "waitWg"
    /\ sched.worker = "returned"
    /\ sched' = [sched EXCEPT !.main = "done"]
    /\ UNCHANGED outsideSched

\* worker: the first collectData, called at once
WorkerFirstCycle ==
    /\ Alive
    /\ sched.worker = "start"
    /\ sched' = [sched EXCEPT !.worker = "list", !.active = @ + 1,
                              !.ran = TRUE]
    /\ UNCHANGED outsideSched

\* worker: case <-ticker.C: collectData
WorkerRecvTick ==
    /\ Alive
    /\ sched.worker = "select"
    /\ sched.tick = 1
    /\ sched' = [sched EXCEPT !.worker = "list", !.tick = 0, !.active = @ + 1]
    /\ UNCHANGED outsideSched

\* worker: case <-stopChan: return
WorkerRecvStop ==
    /\ Alive
    /\ sched.worker = "select"
    /\ sched.stopChan = 1
    /\ sched' = [sched EXCEPT !.worker = "returned", !.stopChan = 0]
    /\ UNCHANGED outsideSched

\* collectData returns; after the first one the ticker is created
EndCycle(w) ==
    [w EXCEPT !.worker = "select", !.di = 0, !.cont = "none",
              !.active = @ - 1, !.ticker = TRUE, !.stopInCycle = FALSE]

\* collectData: GetDevices returns the devices, StoreStations
CycleListed ==
    /\ Alive
    /\ sched.worker = "list"
    /\ sched' = [sched EXCEPT !.worker = "device", !.di = 1]
    /\ UNCHANGED outsideSched

\* collectData: GetDevices returns an error, the cycle ends
CycleListFails ==
    /\ Alive
    /\ sched.worker = "list"
    /\ sched' = EndCycle(sched)
    /\ UNCHANGED outsideSched

\* GetDevices or GetTelemetry: the response has a status other than OK, the
\* call logs in again
CycleNonOK ==
    /\ Alive
    /\ sched.worker \in {"list", "processing"}
    /\ sched' = [sched EXCEPT !.worker = "relogin", !.cont = sched.worker]
    /\ UNCHANGED outsideSched

\* the Login succeeds and the call calls itself again
CycleRetry ==
    /\ Alive
    /\ sched.worker = "relogin"
    /\ sched' = [sched EXCEPT !.worker = sched.cont, !.cont = "none"]
    /\ UNCHANGED outsideSched

\* the Login fails and the call returns its error: collectData returns, or
\* processDevice goes on after the window
CycleReloginFails ==
    /\ Alive
    /\ sched.worker = "relogin"
    /\ sched' = IF sched.cont = "list" THEN EndCycle(sched)
                ELSE [sched EXCEPT !.worker = "processing", !.cont = "none"]
    /\ UNCHANGED outsideSched

\* collectData: processDevice is called for the next device of the loop
DeviceStart ==
    /\ Alive
    /\ sched.worker = "device"
    /\ sched.di <= NumSchedDevices
    /\ sched' = [sched EXCEPT
                   !.worker = "processing",
                   !.startedAfterStop = @ \/ sched.stopInCycle]
    /\ UNCHANGED outsideSched

\* processDevice returns
DeviceDone ==
    /\ Alive
    /\ sched.worker = "processing"
    /\ sched' = [sched EXCEPT !.worker = "device", !.di = @ + 1]
    /\ UNCHANGED outsideSched

\* collectData: the loop over the devices has ended
CycleDone ==
    /\ Alive
    /\ sched.worker = "device"
    /\ sched.di > NumSchedDevices
    /\ sched' = EndCycle(sched)
    /\ UNCHANGED outsideSched

SchedInit ==
    /\ StoreInit
    /\ ApiInit
    /\ SyncOff
    /\ plan = Nil

\* the steps of main
SchedMain ==
    \/ SchedLogin
    \/ SchedLoginFails
    \/ SchedSetup
    \/ SchedSetupFails
    \/ MainRecvStop
    \/ MainWgWait

\* the steps of the worker goroutine
SchedWorker ==
    \/ WorkerFirstCycle
    \/ WorkerRecvTick
    \/ WorkerRecvStop
    \/ CycleListed
    \/ CycleListFails
    \/ CycleNonOK
    \/ CycleRetry
    \/ CycleReloginFails
    \/ DeviceStart
    \/ DeviceDone
    \/ CycleDone

SchedNext ==
    \/ SchedMain
    \/ SchedWorker
    \/ SchedSignal
    \/ SchedTick

SpecSched == SchedInit /\ [][SchedNext]_vars

\* the Go scheduler runs every goroutine that can run, and the ticker fires
SpecSchedFair ==
    /\ SchedInit
    /\ [][SchedNext]_vars
    /\ WF_vars(SchedMain)
    /\ WF_vars(SchedWorker)
    /\ WF_vars(SchedTick)

(***************************************************************************)
(* Properties of the scheduling                                            *)
(***************************************************************************)
\* a collectData is in progress
InCycle == sched.worker \in {"list", "relogin", "device", "processing"}

\* C22: at every moment at most one collectData is in progress: the first
\* cycle and every cycle started by a tick end before another one starts,
\* also when ticks arrive while a cycle is in progress
C22_OneCycleAtATime ==
    /\ sched.active <= 1
    /\ sched.active = 1 <=> InCycle

\* C22: a tick has arrived while a cycle is still processing a device
C22_Witness == sched.active = 1 /\ sched.worker = "processing" /\ sched.tick = 1

\* C24: once a stop signal has arrived while a cycle is in progress,
\* collectData starts processing no further device in that cycle
C24_NoDeviceStartedAfterStop == ~sched.startedAfterStop

\* C25: after a single stop signal, without a second one, main passes both
\* <-stopChan and wg.Wait(), given that the cycles of the worker end
C25_OneSignalStopsTheService ==
    ([]<>(sched.worker \in {"select", "returned"}))
        => [](sched.signals = 1 => <>(sched.signals # 1 \/ sched.main = "done"))

\* C26: when the Login at startup fails the process has exited without
\* opening the database, starting the worker or running any cycle
C26_FailedStartupLoginIsFatal ==
    sched.loginFailed =>
        /\ sched.main = "exited"
        /\ ~sched.dbOpen
        /\ sched.worker = "none"
        /\ ~sched.ran
        /\ sched.active = 0

\* C26: the Login at startup has failed
C26_Witness == sched.loginFailed /\ sched.main = "exited"

\* C27: every cycle ends (or the process does), each call of the remote and
\* of the database returning
C27_EveryCycleEnds == InCycle ~> (~InCycle \/ ~Alive)

=============================================================================
